---- MODULE Spec2Model ----
(***************************************************************************)
(* The on-chain event indexer of the bug-bounty backend                    *)
(* (backend/src/services/indexer.js), the part of the BountyManager        *)
(* contract that emits the events it consumes, and the projection tables   *)
(* of backend/src/database/schema.sql that it writes.                      *)
(*                                                                         *)
(* Amounts are in whole USDT (the contract's six decimals are dropped), so *)
(* that they fit the model checker's integers.  Timestamps are left out.   *)
(* One block carries at most one watched event, so the ordering key        *)
(* (blockNumber, logIndex) is the block number.                            *)
(*                                                                         *)
(* schema.sql declares bounties.title and submissions.title NOT NULL with  *)
(* no default, and the indexer's INSERTs give no title: PostgreSQL checks  *)
(* NOT NULL on the proposed row before ON CONFLICT is considered, so on    *)
(* tables created by the shipped schema both INSERTs fail.  The tables are *)
(* created with CREATE TABLE IF NOT EXISTS, which keeps tables that exist  *)
(* already, so titleNotNull is fixed at Init to either value: TRUE is the  *)
(* shipped schema, FALSE tables that accept the indexer's rows.            *)
(*                                                                         *)
(* query() results are taken as numbers (last_block is a BIGINT column).   *)
(*                                                                         *)
(* Spec is one indexer process on a chain that only grows.  SpecReorg adds *)
(* the replacement of the head block, SpecTwo a second process started     *)
(* against the same indexer_state row.  A real-time handler is two steps,  *)
(* its read of the contract and its queries, so that handlers of different *)
(* events interleave as the awaits of the callbacks allow; a backfill      *)
(* handler is one step, because the batch loop awaits each handler.        *)
(* SpecCompanyHunts lets a company's wallet submit findings as well, and   *)
(* SpecRace splits a listener's get-or-create of its user into the SELECT  *)
(* and the INSERT, next to the login path of the API.                      *)
(*                                                                         *)
(* SpecContracts is BountyManager with VaultManager as their callers see   *)
(* them (senders, access control, reverts), and SpecMultiSig is            *)
(* MultiSigApproval; neither moves the indexer.                            *)
(***************************************************************************)
EXTENDS Integers, Sequences, FiniteSets, TLC

(* ------------------------------ bounds --------------------------------- *)
MaxHead == 4
BatchSize == 2
NumBounties == 1
NumSubmissions == 1
MaxStarts == 2
MaxReorgs == 1
MaxDeposits == 2
MaxRequests == 1

(* ------------------------- program constants --------------------------- *)
StartBlock == 0
StartBlocks == {0, 1}
platformFeePercentage == 5
RewardLow == 10000
RewardMedium == 25000
RewardHigh == 50000
COMPANY_LOCK_AMOUNT == 100000

Active == 0
Dinilai == 1
Valid == 2
Invalid == 3
Completed == 4
Cancelled == 5

Wallets == {"0xAA", "0xBB"}
Companies == {"0xAA"}
Hunters == {"0xBB"}
LowerWallets == {"0xaa", "0xbb"}
TotalRewards == {60000}
Severities == {3}

toLowerCase(a) ==
  CASE a = "0xAA" -> "0xaa"
    [] a = "0xBB" -> "0xbb"
    [] OTHER -> a

Min(a, b) == IF a <= b THEN a ELSE b

severityRewards(sev) ==
  CASE sev = 1 -> RewardLow
    [] sev = 2 -> RewardMedium
    [] sev = 3 -> RewardHigh
    [] OTHER -> 0

WatchedTypes ==
  <<"BountyCreated", "SubmissionCreated", "SubmissionValidated", "RewardPaid", "BountyCompleted">>

VARIABLES
  head,            \* provider.getBlockNumber()
  log,             \* the contract's event log, in block order
  chain,           \* BountyManager storage: bounties, submissions
  titleNotNull,    \* whether the deployed tables carry schema.sql's title NOT NULL
  db,              \* users, hunter_stats, bounties, submissions
  indexer_state,   \* rows of indexer_state for (BOUNTY_MANAGER_ADDRESS, network)
  pc,              \* where the indexer process is
  loc,             \* locals of indexHistoricalEvents: i, currentBlock, fromBlock, toBlock,
                   \*   and which of its five indexXEvents calls is running (type)
  queue,           \* events of the running indexXEvents call still to be handled
  inflight,        \* real-time listener invocations that have not run yet
  hist,            \* history of what the handlers did (not program state)
  other,           \* pc, loc, queue, inflight of a second indexer process
  bm,              \* BountyManager storage with callers and access control
  vault,           \* VaultManager: bountyManager and tokenBalances of the payment token
  tx,              \* the last transaction sent to a contract and how it ended
  paidOut,         \* what the vault has paid on behalf of each bounty (not program state)
  msig             \* MultiSigApproval storage

vars == <<head, log, chain, titleNotNull, db, indexer_state, pc, loc, queue, inflight, hist, other,
          bm, vault, tx, paidOut, msig>>

contractVars == <<bm, vault, tx, paidOut, msig>>
indexerVars ==
  <<head, log, chain, titleNotNull, db, indexer_state, pc, loc, queue, inflight, hist, other>>

chainVars == <<head, log, chain>>
procVars == <<pc, loc, queue, inflight>>

NoLoc == [i |-> 0, currentBlock |-> 0, fromBlock |-> 0, toBlock |-> 0, type |-> 0]

EmptyDb ==
  [users |-> [w \in LowerWallets |-> <<>>],
   hunter_stats |-> [w \in LowerWallets |-> <<>>],
   bounties |-> [b \in 0..(NumBounties - 1) |-> <<>>],
   submissions |-> [s \in 0..(NumSubmissions - 1) |-> <<>>]]

\* streamed: blocks of the events handled by the listeners of this run
\* batchWrites: a handler of the batch in progress has changed the tables
\* batchTrace: blocks of the events handled so far by the batch in progress
\* orphan: this run handled an event whose parent row was missing
\* starts: how many times the process has been started
\* reorgs: how many times the head block has been replaced
\* postReorgRun: this run started after the last replacement of the head block
\* exit: why the last run ended: "throw" (a handler's query threw), "transient"
\*   (a provider or database call failed), "signal" (SIGINT / SIGTERM); "" while
\*   a run is going on or before the first
\* userClash: a handler's INSERT INTO users met a row that was not there when
\*   the handler looked
InitHist ==
  [streamed |-> {},
   batchWrites |-> FALSE,
   batchTrace |-> <<>>,
   orphan |-> FALSE,
   starts |-> 0,
   reorgs |-> 0,
   postReorgRun |-> FALSE,
   exit |-> "",
   userClash |-> FALSE]

\* Accounts that send transactions: the two wallets, the account that deployed
\* the contracts (their owner()), and the address of the deployed
\* VulnerabilityValidator contract.
Deployer == "0xDD"
VulnerabilityValidator == "0xEE"
BountyManagerAddress == "0xB0"
ZeroAddress == "0x00"
Senders == Wallets \cup {Deployer, VulnerabilityValidator}
owner == Deployer
Verdicts == {<<3, TRUE>>, <<0, FALSE>>}
DepositAmount == 60000

NoHunter == [isActive |-> FALSE, totalEarned |-> 0, successfulSubmissions |-> 0, reputation |-> 0]

InitBm ==
  [nextBountyId |-> 0,
   nextSubmissionId |-> 0,
   validatorContract |-> ZeroAddress,
   paused |-> FALSE,
   bounties |-> <<>>,
   submissions |-> <<>>,
   hunters |-> [w \in Wallets |-> NoHunter],
   bountySubmissions |-> [b \in 0..(NumBounties - 1) |-> <<>>]]

InitVault ==
  [bountyManager |-> ZeroAddress, totalDeposited |-> 0, totalWithdrawn |-> 0, availableBalance |-> 0]

NoTx == [fn |-> "", sender |-> ZeroAddress, id |-> 0, ok |-> TRUE, reason |-> ""]

MsigWallets == {"0xA1", "0xA2", "0xA3"}
MsigSenders == MsigWallets \cup {Deployer}

InitMsig ==
  [wallet1 |-> "0xA1",
   wallet2 |-> "0xA2",
   wallet3 |-> "0xA3",
   requiredApprovals |-> 3,
   nextRequestId |-> 0,
   approvalRequests |->
     [r \in 0..(MaxRequests - 1) |->
        [requester |-> ZeroAddress, approvalCount |-> 0, isExecuted |-> FALSE,
         isCancelled |-> FALSE, approvals |-> {}]],
   wallets |-> [a \in MsigSenders |-> [isActive |-> a \in MsigWallets, totalApprovals |-> 0]]]

Init ==
  /\ head = 0
  /\ log = <<>>
  /\ chain = [bounties |-> <<>>, submissions |-> <<>>]
  /\ titleNotNull \in BOOLEAN
  /\ db = EmptyDb
  /\ indexer_state = <<>>
  /\ pc = "stopped"
  /\ loc = NoLoc
  /\ queue = <<>>
  /\ inflight = {}
  /\ hist = InitHist
  /\ other = [pc |-> "stopped", loc |-> NoLoc, queue |-> <<>>, inflight |-> {}]
  /\ bm = InitBm
  /\ vault = InitVault
  /\ tx = NoTx
  /\ paidOut = [b \in 0..(NumBounties - 1) |-> 0]
  /\ msig = InitMsig

(* ----------------------- BountyManager (event source) ------------------ *)
Ev(type, blk, bountyId, submissionId, who, amount, severity, isValid) ==
  [type |-> type, blockNumber |-> blk, bountyId |-> bountyId,
   submissionId |-> submissionId, who |-> who, amount |-> amount,
   severity |-> severity, isValid |-> isValid]

IsWatched(e) == \E k \in 1..Len(WatchedTypes) : WatchedTypes[k] = e.type

\* Mined for a start() that registers the listeners before the backfill: any
\* running process is delivered the event
Mined_listenersFirst(e) ==
  /\ head < MaxHead
  /\ head' = head + 1
  /\ log' = Append(log, e)
  /\ inflight' = IF pc # "stopped" /\ IsWatched(e)
                   THEN inflight \cup {[ev |-> e, data |-> <<>>]}
                   ELSE inflight
  /\ other' = IF other.pc # "stopped" /\ IsWatched(e)
                THEN [other EXCEPT !.inflight = @ \cup {[ev |-> e, data |-> <<>>]}]
                ELSE other
  /\ UNCHANGED <<titleNotNull, contractVars, db, indexer_state, pc, loc, queue, hist>>

\* A transaction is mined in block head + 1 and emits e; a listener registered
\* with contract.on() is invoked for it.
Mined(e) ==
  /\ head < MaxHead
  /\ head' = head + 1
  /\ log' = Append(log, e)
  /\ inflight' = IF pc = "realtime" /\ IsWatched(e)
                   THEN inflight \cup {[ev |-> e, data |-> <<>>]}
                   ELSE inflight
  /\ other' = IF other.pc = "realtime" /\ IsWatched(e)
                THEN [other EXCEPT !.inflight = @ \cup {[ev |-> e, data |-> <<>>]}]
                ELSE other
  /\ UNCHANGED <<titleNotNull, contractVars, db, indexer_state, pc, loc, queue, hist>>

mineEmptyBlock ==
  /\ head < MaxHead
  /\ head' = head + 1
  /\ UNCHANGED <<log, chain, titleNotNull, contractVars, db, indexer_state, pc, loc, queue, inflight, hist, other>>

createBounty(company, totalReward) ==
  LET bountyId == Len(chain.bounties) IN
  /\ bountyId < NumBounties
  /\ totalReward > 0
  /\ chain' = [chain EXCEPT !.bounties = Append(@,
        [company |-> company, totalReward |-> totalReward,
         remainingReward |-> totalReward, lockAmount |-> COMPANY_LOCK_AMOUNT,
         status |-> Active, isActive |-> TRUE])]
  /\ Mined(Ev("BountyCreated", head + 1, bountyId, 0, company, totalReward, 0, FALSE))

submitFinding(hunter, bountyId) ==
  LET submissionId == Len(chain.submissions) IN
  /\ bountyId < Len(chain.bounties)
  /\ chain.bounties[bountyId + 1].isActive
  /\ submissionId < NumSubmissions
  /\ chain' = [chain EXCEPT !.submissions = Append(@,
        [bountyId |-> bountyId, hunter |-> hunter, severity |-> 0,
         status |-> Dinilai, rewardAmount |-> 0, isPaid |-> FALSE])]
  /\ Mined(Ev("SubmissionCreated", head + 1, bountyId, submissionId, hunter, 0, 0, FALSE))

validateSubmission(submissionId, severity, isValid) ==
  /\ submissionId < Len(chain.submissions)
  /\ chain.submissions[submissionId + 1].status = Dinilai
  /\ chain' = [chain EXCEPT !.submissions[submissionId + 1] =
        [@ EXCEPT !.severity = severity,
                  !.status = IF isValid THEN Valid ELSE Invalid,
                  !.rewardAmount = IF isValid /\ severity # 0
                                     THEN severityRewards(severity) ELSE @]]
  /\ Mined(Ev("SubmissionValidated", head + 1, chain.submissions[submissionId + 1].bountyId,
              submissionId, chain.submissions[submissionId + 1].hunter, 0, severity, isValid))

payReward(submissionId) ==
  /\ submissionId < Len(chain.submissions)
  /\ LET submission == chain.submissions[submissionId + 1]
         bounty == chain.bounties[submission.bountyId + 1]
         platformFee == (submission.rewardAmount * platformFeePercentage) \div 100
         hunterReward == submission.rewardAmount - platformFee
     IN /\ submission.status = Valid
        /\ ~submission.isPaid
        /\ bounty.remainingReward >= submission.rewardAmount
        /\ chain' = [chain EXCEPT
              !.submissions[submissionId + 1].isPaid = TRUE,
              !.bounties[submission.bountyId + 1].remainingReward = @ - submission.rewardAmount]
        /\ Mined(Ev("RewardPaid", head + 1, submission.bountyId, submissionId,
                    submission.hunter, hunterReward, submission.severity, TRUE))

completeBounty(bountyId) ==
  /\ bountyId < Len(chain.bounties)
  /\ chain.bounties[bountyId + 1].isActive
  /\ chain' = [chain EXCEPT !.bounties[bountyId + 1] =
        [@ EXCEPT !.isActive = FALSE, !.status = Completed]]
  /\ Mined(Ev("BountyCompleted", head + 1, bountyId, 0,
              chain.bounties[bountyId + 1].company, 0, 0, FALSE))

cancelBounty(bountyId) ==
  /\ bountyId < Len(chain.bounties)
  /\ chain.bounties[bountyId + 1].isActive
  /\ \A k \in 1..Len(chain.submissions) :
        chain.submissions[k].bountyId = bountyId => chain.submissions[k].status # Valid
  /\ chain' = [chain EXCEPT !.bounties[bountyId + 1] =
        [@ EXCEPT !.isActive = FALSE, !.status = Cancelled]]
  /\ Mined(Ev("BountyCancelled", head + 1, bountyId, 0,
              chain.bounties[bountyId + 1].company, 0, 0, FALSE))

\* The contract's storage before the transaction that emitted e.
Undo(e) ==
  CASE e.type = "BountyCreated" ->
         [chain EXCEPT !.bounties = SubSeq(@, 1, Len(@) - 1)]
    [] e.type = "SubmissionCreated" ->
         [chain EXCEPT !.submissions = SubSeq(@, 1, Len(@) - 1)]
    [] e.type = "SubmissionValidated" ->
         [chain EXCEPT !.submissions[e.submissionId + 1] =
            [@ EXCEPT !.severity = 0, !.status = Dinilai, !.rewardAmount = 0]]
    [] e.type = "RewardPaid" ->
         [chain EXCEPT
            !.submissions[e.submissionId + 1].isPaid = FALSE,
            !.bounties[e.bountyId + 1].remainingReward =
               @ + chain.submissions[e.submissionId + 1].rewardAmount]
    [] e.type \in {"BountyCompleted", "BountyCancelled"} ->
         [chain EXCEPT !.bounties[e.bountyId + 1] =
            [@ EXCEPT !.isActive = TRUE, !.status = Active]]

\* Chain reorganisation of depth one: the head block is replaced by a block
\* of the same height that does not hold its transaction.  The indexer keeps
\* what it fetched or was delivered before.
reorg ==
  /\ head >= 1
  /\ hist.reorgs < MaxReorgs
  /\ Len(log) # 0
  /\ log[Len(log)].blockNumber = head
  /\ log' = SubSeq(log, 1, Len(log) - 1)
  /\ chain' = Undo(log[Len(log)])
  /\ hist' = [hist EXCEPT !.reorgs = @ + 1, !.postReorgRun = FALSE]
  /\ UNCHANGED <<head, titleNotNull, contractVars, db, indexer_state, pc, loc, queue, inflight, other>>

\* The public getters of the bounties and submissions mappings: an id that
\* was never written reads as the zero struct.
bounties(bountyId) ==
  IF bountyId < Len(chain.bounties)
    THEN chain.bounties[bountyId + 1]
    ELSE [company |-> "0x00", totalReward |-> 0, remainingReward |-> 0,
          lockAmount |-> 0, status |-> Active, isActive |-> FALSE]

submissions(submissionId) ==
  IF submissionId < Len(chain.submissions)
    THEN chain.submissions[submissionId + 1]
    ELSE [bountyId |-> 0, hunter |-> "0x00", severity |-> 0,
          status |-> Active, rewardAmount |-> 0, isPaid |-> FALSE]

(* ------------------------------ projectors ----------------------------- *)
\* Every handler maps (tables, event, struct read from the contract) to the
\* tables after its queries and whether one of its queries threw.  A handler
\* reads the contract in its first await and writes in later ones.
ReadingTypes == {"BountyCreated", "SubmissionCreated"}

\* what the handler of e reads from the contract, as <<struct>>
readContract(e) ==
  CASE e.type = "BountyCreated" -> <<bounties(e.bountyId)>>
    [] e.type = "SubmissionCreated" -> <<submissions(e.submissionId)>>
    [] OTHER -> <<>>

Result(d, threw) == [db |-> d, threw |-> threw]

\* handleBountyCreated with an upsert that adds to the stored total_reward
\* instead of overwriting it
handleBountyCreated_accumulating(d, e, bountyData) ==
  LET company == toLowerCase(e.who)
      d1 == IF Len(d.users[company]) = 0
              THEN [d EXCEPT !.users[company] = <<"company">>]
              ELSE d
      inserted == [company |-> company,
                   total_reward |-> bountyData.totalReward,
                   remaining_reward |-> bountyData.remainingReward,
                   lock_amount |-> bountyData.lockAmount,
                   status |-> bountyData.status,
                   is_active |-> bountyData.isActive,
                   block_number |-> e.blockNumber]
  IN IF titleNotNull
       THEN Result(d1, TRUE)
       ELSE Result([d1 EXCEPT !.bounties[e.bountyId] =
                      IF Len(@) = 0
                        THEN <<inserted>>
                        ELSE <<[@[1] EXCEPT !.total_reward = @ + bountyData.totalReward,
                                            !.remaining_reward = bountyData.remainingReward,
                                            !.status = bountyData.status,
                                            !.is_active = bountyData.isActive]>>],
                   FALSE)

handleBountyCreated(d, e, bountyData) ==
  LET company == toLowerCase(e.who)
      d1 == IF Len(d.users[company]) = 0
              THEN [d EXCEPT !.users[company] = <<"company">>]
              ELSE d
      inserted == [company |-> company,
                   total_reward |-> bountyData.totalReward,
                   remaining_reward |-> bountyData.remainingReward,
                   lock_amount |-> bountyData.lockAmount,
                   status |-> bountyData.status,
                   is_active |-> bountyData.isActive,
                   block_number |-> e.blockNumber]
  IN IF titleNotNull
       THEN Result(d1, TRUE)
       ELSE Result([d1 EXCEPT !.bounties[e.bountyId] =
                      IF Len(@) = 0
                        THEN <<inserted>>
                        ELSE <<[@[1] EXCEPT !.total_reward = bountyData.totalReward,
                                            !.remaining_reward = bountyData.remainingReward,
                                            !.status = bountyData.status,
                                            !.is_active = bountyData.isActive]>>],
                   FALSE)

handleSubmissionCreated(d, e, submissionData) ==
  LET hunter == toLowerCase(e.who)
      isNew == Len(d.users[hunter]) = 0
      statsClash == isNew /\ Len(d.hunter_stats[hunter]) # 0
      d1 == IF isNew
              THEN [d EXCEPT !.users[hunter] = <<"hunter">>,
                             !.hunter_stats[hunter] =
                                IF Len(@) = 0
                                  THEN <<[total_earned |-> 0, successful_submissions |-> 0,
                                          total_submissions |-> 0]>>
                                  ELSE @]
              ELSE d
      inserted == [bounty |-> e.bountyId, hunter |-> hunter,
                   severity |-> submissionData.severity,
                   status |-> submissionData.status,
                   reward_amount |-> submissionData.rewardAmount,
                   is_paid |-> submissionData.isPaid,
                   block_number |-> e.blockNumber]
      d2 == [d1 EXCEPT !.submissions[e.submissionId] =
                IF Len(@) = 0
                  THEN <<inserted>>
                  ELSE <<[@[1] EXCEPT !.severity = submissionData.severity,
                                      !.status = submissionData.status,
                                      !.reward_amount = submissionData.rewardAmount,
                                      !.is_paid = submissionData.isPaid]>>]
      d3 == [d2 EXCEPT !.hunter_stats[hunter] =
                IF Len(@) = 0 THEN @
                ELSE <<[@[1] EXCEPT !.total_submissions = @ + 1]>>]
  IN IF statsClash THEN Result([d EXCEPT !.users[hunter] = <<"hunter">>], TRUE)
     ELSE IF Len(d1.bounties[e.bountyId]) = 0 THEN Result(d1, FALSE)
     ELSE IF titleNotNull THEN Result(d1, TRUE)
     ELSE Result(d3, FALSE)

handleSubmissionValidated(d, e) ==
  Result([d EXCEPT !.submissions[e.submissionId] =
            IF Len(@) = 0 THEN @
            ELSE <<[@[1] EXCEPT !.severity = e.severity,
                                !.status = IF e.isValid THEN 2 ELSE 3]>>],
         FALSE)

handleRewardPaid(d, e) ==
  LET hunter == toLowerCase(e.who)
      d1 == [d EXCEPT !.submissions[e.submissionId] =
                IF Len(@) = 0 THEN @
                ELSE <<[@[1] EXCEPT !.is_paid = TRUE, !.reward_amount = e.amount]>>]
  IN Result([d1 EXCEPT !.hunter_stats[hunter] =
                IF Len(@) = 0 THEN @
                ELSE <<[@[1] EXCEPT !.total_earned = @ + e.amount,
                                    !.successful_submissions = @ + 1]>>],
            FALSE)

handleBountyCompleted(d, e) ==
  Result([d EXCEPT !.bounties[e.bountyId] =
            IF Len(@) = 0 THEN @
            ELSE <<[@[1] EXCEPT !.status = 4, !.is_active = FALSE]>>],
         FALSE)

\* The handler that indexXEvents / the listener for e.type calls.
handle(d, e, data) ==
  CASE e.type = "BountyCreated" -> handleBountyCreated(d, e, data[1])
    [] e.type = "SubmissionCreated" -> handleSubmissionCreated(d, e, data[1])
    [] e.type = "SubmissionValidated" -> handleSubmissionValidated(d, e)
    [] e.type = "RewardPaid" -> handleRewardPaid(d, e)
    [] e.type = "BountyCompleted" -> handleBountyCompleted(d, e)

\* The event refers to a bounty or submission the projection does not hold.
ParentMissing(d, e) ==
  \/ e.type = "SubmissionCreated" /\ Len(d.bounties[e.bountyId]) = 0
  \/ e.type \in {"SubmissionValidated", "RewardPaid"} /\ Len(d.submissions[e.submissionId]) = 0

\* What the history records when a handler has run for e, turning d into r.db.
Handled(e, r, inBatch) ==
  [hist EXCEPT
     !.streamed = IF inBatch THEN @ ELSE @ \cup {e.blockNumber},
     !.batchWrites = IF inBatch THEN @ \/ r.db # db ELSE @,
     !.batchTrace = IF inBatch THEN Append(@, e.blockNumber) ELSE @,
     !.orphan = @ \/ ParentMissing(db, e)]

\* The history of a run that has ended.
Exited(h) ==
  [h EXCEPT !.streamed = {}, !.batchTrace = <<>>, !.orphan = FALSE]

(* --------------------------- checkpoint store -------------------------- *)
\* The rows query() returns for getLastIndexedBlock's SELECT, with last_block
\* as a number.
selectLastBlock ==
  IF Len(indexer_state) = 0 THEN <<>> ELSE <<indexer_state[1].last_block>>

\* initializeState and getLastIndexedBlock of a process started with
\* INDEXER_START_BLOCK = startBlock
initializeStateFrom(startBlock) ==
  IF Len(indexer_state) = 0 THEN <<[last_block |-> startBlock]>> ELSE indexer_state

getLastIndexedBlockFrom(startBlock) ==
  IF Len(selectLastBlock) # 0 /\ selectLastBlock[1] # 0
    THEN selectLastBlock[1]
    ELSE startBlock

initializeState ==
  initializeStateFrom(StartBlock)

\* getLastIndexedBlock whose SELECT matches no row, so that it always falls
\* back to INDEXER_START_BLOCK
getLastIndexedBlock_noRow ==
  StartBlock

getLastIndexedBlock ==
  getLastIndexedBlockFrom(StartBlock)

updateLastIndexedBlock(blockNumber) ==
  IF Len(indexer_state) = 0 THEN indexer_state
  ELSE <<[indexer_state[1] EXCEPT !.last_block = blockNumber]>>

(* ------------------------- reconciliation engine ----------------------- *)
\* queryFilter(filter, fromBlock, toBlock) for one event type
queryFilter(type, fromBlock, toBlock) ==
  SelectSeq(log, LAMBDA e : /\ e.type = type
                            /\ e.blockNumber >= fromBlock
                            /\ e.blockNumber <= toBlock)

\* The order in which one pass of the batch loop hands events to the handlers:
\* The next of the five indexXEvents calls, after call k, whose queryFilter
\* returns an event; 0 when the remaining calls find none.
nextType(k, fromBlock, toBlock) ==
  LET later == {j \in (k + 1)..Len(WatchedTypes) :
                  queryFilter(WatchedTypes[j], fromBlock, toBlock) # <<>>}
  IN IF later = {} THEN 0 ELSE CHOOSE j \in later : \A m \in later : j <= m

\* a batch range whose end is one block too far
batchRange_inclusiveEnd(i, currentBlock) ==
  [fromBlock |-> i, toBlock |-> Min(i + BatchSize, currentBlock)]

batchRange(i, currentBlock) ==
  [fromBlock |-> i, toBlock |-> Min(i + BatchSize - 1, currentBlock)]

\* node indexer.js: start() runs initialize()
start ==
  /\ pc = "stopped"
  /\ hist.starts < MaxStarts
  /\ indexer_state' = initializeState
  /\ pc' = "initialized"
  /\ hist' = [hist EXCEPT !.starts = @ + 1, !.batchWrites = FALSE,
                          !.postReorgRun = (hist.reorgs > 0), !.exit = ""]
  /\ UNCHANGED <<chainVars, titleNotNull, contractVars, db, loc, queue, inflight, other>>

\* indexHistoricalEvents up to the first pass of its loop
indexHistoricalEvents ==
  /\ pc = "initialized"
  /\ LET lastBlock == getLastIndexedBlock
         currentBlock == head
         range == batchRange(lastBlock, currentBlock)
     IN IF lastBlock >= currentBlock
          THEN /\ pc' = "caughtup"
               /\ UNCHANGED <<loc, queue, hist>>
          ELSE /\ pc' = "batch"
               /\ loc' = [i |-> lastBlock, currentBlock |-> currentBlock,
                          fromBlock |-> range.fromBlock, toBlock |-> range.toBlock,
                          type |-> 0]
               /\ queue' = <<>>
               /\ hist' = [hist EXCEPT !.batchWrites = FALSE, !.batchTrace = <<>>]
  /\ UNCHANGED <<chainVars, titleNotNull, contractVars, db, indexer_state, inflight, other>>

\* the queryFilter of the next indexXEvents call that finds events
queryEvents ==
  /\ pc = "batch"
  /\ queue = <<>>
  /\ LET j == nextType(loc.type, loc.fromBlock, loc.toBlock)
     IN /\ j # 0
        /\ loc' = [loc EXCEPT !.type = j]
        /\ queue' = queryFilter(WatchedTypes[j], loc.fromBlock, loc.toBlock)
  /\ UNCHANGED <<chainVars, titleNotNull, contractVars, db, indexer_state, pc, inflight, hist, other>>

\* one handler call of the batch; an error propagates to start(), which exits
indexEvent ==
  /\ pc = "batch"
  /\ queue # <<>>
  /\ LET e == Head(queue)
         r == handle(db, e, readContract(e))
     IN /\ db' = r.db
        /\ hist' = IF r.threw THEN [Exited(Handled(e, r, TRUE)) EXCEPT !.exit = "throw"]
                              ELSE Handled(e, r, TRUE)
        /\ IF r.threw
             THEN /\ pc' = "stopped"
                  /\ loc' = NoLoc
                  /\ queue' = <<>>
             ELSE /\ queue' = Tail(queue)
                  /\ UNCHANGED <<pc, loc>>
  /\ UNCHANGED <<chainVars, titleNotNull, contractVars, indexer_state, inflight, other>>

\* a batch loop that writes the checkpoint without waiting for the index calls
commitBatch_early ==
  /\ pc = "batch"
  /\ indexer_state' = updateLastIndexedBlock(loc.toBlock)
  /\ LET i == loc.i + BatchSize
         range == batchRange(i, loc.currentBlock)
     IN IF i <= loc.currentBlock
          THEN /\ pc' = "batch"
               /\ loc' = [loc EXCEPT !.i = i, !.fromBlock = range.fromBlock,
                                     !.toBlock = range.toBlock, !.type = 0]
               /\ queue' = <<>>
          ELSE /\ pc' = "caughtup"
               /\ loc' = NoLoc
               /\ queue' = <<>>
  /\ hist' = [hist EXCEPT !.batchWrites = FALSE, !.batchTrace = <<>>]
  /\ UNCHANGED <<chainVars, titleNotNull, contractVars, db, inflight, other>>

\* end of one pass: updateLastIndexedBlock(toBlock), then i += batchSize
commitBatch ==
  /\ pc = "batch"
  /\ queue = <<>>
  /\ nextType(loc.type, loc.fromBlock, loc.toBlock) = 0
  /\ indexer_state' = updateLastIndexedBlock(loc.toBlock)
  /\ LET i == loc.i + BatchSize
         range == batchRange(i, loc.currentBlock)
     IN IF i <= loc.currentBlock
          THEN /\ pc' = "batch"
               /\ loc' = [loc EXCEPT !.i = i, !.fromBlock = range.fromBlock,
                                     !.toBlock = range.toBlock, !.type = 0]
               /\ queue' = <<>>
          ELSE /\ pc' = "caughtup"
               /\ loc' = NoLoc
               /\ queue' = <<>>
  /\ hist' = [hist EXCEPT !.batchWrites = FALSE, !.batchTrace = <<>>]
  /\ UNCHANGED <<chainVars, titleNotNull, contractVars, db, inflight, other>>

\* startRealtimeIndexing registers the five listeners
startRealtimeIndexing ==
  /\ pc = "caughtup"
  /\ pc' = "realtime"
  /\ UNCHANGED <<chainVars, titleNotNull, contractVars, db, indexer_state, loc, queue, inflight, hist, other>>

\* a listener callback of a reading handler passes its first await: the
\* contract's struct as it is now
listenerRead(l) ==
  /\ pc = "realtime"
  /\ l \in inflight
  /\ l.ev.type \in ReadingTypes
  /\ l.data = <<>>
  /\ inflight' = (inflight \ {l}) \cup {[l EXCEPT !.data = readContract(l.ev)]}
  /\ UNCHANGED <<chainVars, titleNotNull, contractVars, db, indexer_state, pc, loc, queue, hist, other>>

\* a listener callback of a reading handler passes its second await, the
\* SELECT on users: it holds the number of rows found
listenerSelect(l) ==
  /\ pc = "realtime"
  /\ l \in inflight
  /\ l.ev.type \in ReadingTypes
  /\ Len(l.data) = 1
  /\ inflight' = (inflight \ {l}) \cup
                    {[l EXCEPT !.data = Append(@, Len(db.users[toLowerCase(l.ev.who)]))]}
  /\ UNCHANGED <<chainVars, titleNotNull, contractVars, db, indexer_state, pc, loc, queue, hist, other>>

\* The handler found no users row, and one is there now: its INSERT INTO users
\* violates UNIQUE (wallet_address).
UserClash(l) ==
  /\ Len(l.data) = 2
  /\ l.data[2] = 0
  /\ Len(db.users[toLowerCase(l.ev.who)]) # 0

\* a listener callback runs its queries; its rejection is unhandled, which
\* ends the process or not depending on the runtime
listener(l, fatal) ==
  /\ pc = "realtime"
  /\ l \in inflight
  /\ l.ev.type \in ReadingTypes => l.data # <<>>
  /\ LET e == l.ev
         r == IF UserClash(l) THEN Result(db, TRUE) ELSE handle(db, e, l.data)
     IN /\ db' = r.db
        /\ hist' = IF r.threw /\ fatal
                      THEN [Exited(Handled(e, r, FALSE)) EXCEPT
                              !.exit = "throw", !.userClash = @ \/ UserClash(l)]
                      ELSE [Handled(e, r, FALSE) EXCEPT !.userClash = @ \/ UserClash(l)]
        /\ IF r.threw /\ fatal
             THEN /\ pc' = "stopped"
                  /\ inflight' = {}
             ELSE /\ pc' = pc
                  /\ inflight' = inflight \ {l}
  /\ UNCHANGED <<chainVars, titleNotNull, contractVars, indexer_state, loc, queue, other>>

\* any delivered event's listener takes its next step
runListener ==
  \/ \E l \in inflight : listenerRead(l)
  \/ \E l \in inflight, fatal \in BOOLEAN : listener(l, fatal)

\* getLastIndexedBlock, getBlockNumber, queryFilter, a handler's query or
\* updateLastIndexedBlock fails once (timeout, connection lost) during backfill:
\* indexHistoricalEvents rethrows and start() exits the process
transientFailure ==
  /\ pc \in {"initialized", "batch"}
  /\ pc' = "stopped"
  /\ loc' = NoLoc
  /\ queue' = <<>>
  /\ inflight' = {}
  /\ hist' = [Exited(hist) EXCEPT !.exit = "transient"]
  /\ UNCHANGED <<chainVars, titleNotNull, contractVars, db, indexer_state, other>>

\* the process exits on SIGINT / SIGTERM: stop(), then process.exit(0)
crash ==
  /\ pc # "stopped"
  /\ pc' = "stopped"
  /\ loc' = NoLoc
  /\ queue' = <<>>
  /\ inflight' = {}
  /\ hist' = [Exited(hist) EXCEPT !.exit = "signal"]
  /\ UNCHANGED <<chainVars, titleNotNull, contractVars, db, indexer_state, other>>

Next ==
  \/ mineEmptyBlock
  \/ \E c \in Companies, t \in TotalRewards : createBounty(c, t)
  \/ \E h \in Hunters, b \in 0..(NumBounties - 1) : submitFinding(h, b)
  \/ \E s \in 0..(NumSubmissions - 1), sev \in Severities, ok \in BOOLEAN :
        validateSubmission(s, sev, ok)
  \/ \E s \in 0..(NumSubmissions - 1) : payReward(s)
  \/ \E b \in 0..(NumBounties - 1) : completeBounty(b)
  \/ \E b \in 0..(NumBounties - 1) : cancelBounty(b)
  \/ start
  \/ indexHistoricalEvents
  \/ queryEvents
  \/ indexEvent
  \/ commitBatch
  \/ startRealtimeIndexing
  \/ runListener
  \/ transientFailure
  \/ crash

Spec == Init /\ [][Next]_vars

\* A second indexer process started against the same indexer_state row: the
\* process taking the steps changes places with the other one.
switch ==
  /\ pc' = other.pc
  /\ loc' = other.loc
  /\ queue' = other.queue
  /\ inflight' = other.inflight
  /\ other' = [pc |-> pc, loc |-> loc, queue |-> queue, inflight |-> inflight]
  /\ <<pc, loc, queue, inflight>> # <<other.pc, other.loc, other.queue, other.inflight>>
  /\ UNCHANGED <<chainVars, titleNotNull, contractVars, db, indexer_state, hist>>

NextTwo ==
  \/ Next
  \/ switch

SpecTwo == Init /\ [][NextTwo]_vars

\* The indexer on a chain whose head block can be reorganised.
NextReorg ==
  \/ Next
  \/ reorg

SpecReorg == Init /\ [][NextReorg]_vars

\* The indexer when a wallet that created a bounty also registers as a hunter
\* and submits a finding (registerHunter is open to every address).
NextCompanyHunts ==
  \/ Next
  \/ \E c \in Companies, b \in 0..(NumBounties - 1) : submitFinding(c, b)

SpecCompanyHunts == Init /\ [][NextCompanyHunts]_vars

\* authController.login for a wallet: get or create the user, with its
\* hunter_stats row (ON CONFLICT DO NOTHING).
login(address) ==
  /\ db' = IF Len(db.users[address]) # 0 THEN db
           ELSE [db EXCEPT !.users[address] = <<"hunter">>,
                           !.hunter_stats[address] =
                              IF Len(@) = 0
                                THEN <<[total_earned |-> 0, successful_submissions |-> 0,
                                        total_submissions |-> 0]>>
                                ELSE @]
  /\ UNCHANGED <<chainVars, titleNotNull, contractVars, indexer_state, procVars, hist, other>>

\* The indexer with the SELECT and the INSERT of a handler's get-or-create of
\* its user as two steps, next to the login path of the API.
NextRace ==
  \/ Next
  \/ \E l \in inflight : listenerSelect(l)
  \/ \E w \in Wallets : login(toLowerCase(w))

SpecRace == Init /\ [][NextRace]_vars

(* ---------------- BountyManager and VaultManager (callers) ------------- *)
\* The contracts as their callers see them: every transaction has a sender, a
\* failed require reverts it and leaves storage as it was.  The payment token
\* is one ERC20 of which the companies hold and have approved enough; the
\* vault holds at least tokenBalances.availableBalance of it, because only
\* createBounty's direct transfer moves tokens in without crediting the ledger.
\* Deadlines lie in the future.
Reverted(fn, sender, id, reason) ==
  /\ tx' = [fn |-> fn, sender |-> sender, id |-> id, ok |-> FALSE, reason |-> reason]
  /\ UNCHANGED <<bm, vault, paidOut>>

Succeeded(fn, sender, id) ==
  tx' = [fn |-> fn, sender |-> sender, id |-> id, ok |-> TRUE, reason |-> ""]

bountyExists(_bountyId) == _bountyId < bm.nextBountyId

submissionExists(_submissionId) == _submissionId < bm.nextSubmissionId

_severity2Points(_severity) ==
  CASE _severity = 1 -> 10
    [] _severity = 2 -> 25
    [] _severity = 3 -> 50
    [] OTHER -> 0

VaultManager_setBountyManager(sender, _bountyManager) ==
  /\ IF sender # owner
       THEN Reverted("setBountyManager", sender, 0, "OwnableUnauthorizedAccount")
       ELSE /\ vault' = [vault EXCEPT !.bountyManager = _bountyManager]
            /\ Succeeded("setBountyManager", sender, 0)
            /\ UNCHANGED <<bm, paidOut>>
  /\ UNCHANGED <<indexerVars, msig>>

VaultManager_deposit(sender, _amount) ==
  /\ vault.totalDeposited < MaxDeposits * DepositAmount
  /\ vault' = [vault EXCEPT !.totalDeposited = @ + _amount, !.availableBalance = @ + _amount]
  /\ Succeeded("deposit", sender, 0)
  /\ UNCHANGED <<bm, paidOut, indexerVars, msig>>

\* payoutReward and returnFunds as BountyManager calls them: "" when the call
\* goes through, else the reason it reverts with.
payoutReward_revert(totalAmount) ==
  IF vault.bountyManager # BountyManagerAddress THEN "Only bounty manager"
  ELSE IF vault.availableBalance < totalAmount THEN "Insufficient balance"
  ELSE ""

Withdrawn(amount) ==
  [vault EXCEPT !.availableBalance = @ - amount, !.totalWithdrawn = @ + amount]

BountyManager_setValidatorContract(sender, _validator) ==
  /\ IF sender # owner
       THEN Reverted("setValidatorContract", sender, 0, "OwnableUnauthorizedAccount")
       ELSE /\ bm' = [bm EXCEPT !.validatorContract = _validator]
            /\ Succeeded("setValidatorContract", sender, 0)
            /\ UNCHANGED <<vault, paidOut>>
  /\ UNCHANGED <<indexerVars, msig>>

BountyManager_pause(sender) ==
  /\ IF sender # owner
       THEN Reverted("pause", sender, 0, "OwnableUnauthorizedAccount")
       ELSE IF bm.paused
         THEN Reverted("pause", sender, 0, "EnforcedPause")
         ELSE /\ bm' = [bm EXCEPT !.paused = TRUE]
              /\ Succeeded("pause", sender, 0)
              /\ UNCHANGED <<vault, paidOut>>
  /\ UNCHANGED <<indexerVars, msig>>

BountyManager_unpause(sender) ==
  /\ IF sender # owner
       THEN Reverted("unpause", sender, 0, "OwnableUnauthorizedAccount")
       ELSE IF ~bm.paused
         THEN Reverted("unpause", sender, 0, "ExpectedPause")
         ELSE /\ bm' = [bm EXCEPT !.paused = FALSE]
              /\ Succeeded("unpause", sender, 0)
              /\ UNCHANGED <<vault, paidOut>>
  /\ UNCHANGED <<indexerVars, msig>>

BountyManager_createBounty(sender, _totalReward) ==
  /\ IF bm.paused
       THEN Reverted("createBounty", sender, 0, "EnforcedPause")
       ELSE /\ bm.nextBountyId < NumBounties
            /\ bm' = [bm EXCEPT
                        !.nextBountyId = @ + 1,
                        !.bounties = Append(@, [id |-> bm.nextBountyId,
                                                company |-> sender,
                                                totalReward |-> _totalReward,
                                                remainingReward |-> _totalReward,
                                                lockAmount |-> COMPANY_LOCK_AMOUNT,
                                                status |-> Active,
                                                isActive |-> TRUE])]
            /\ Succeeded("createBounty", sender, bm.nextBountyId)
            /\ UNCHANGED <<vault, paidOut>>
  /\ UNCHANGED <<indexerVars, msig>>

BountyManager_registerHunter(sender) ==
  /\ IF bm.hunters[sender].isActive
       THEN Reverted("registerHunter", sender, 0, "Already registered")
       ELSE /\ bm' = [bm EXCEPT !.hunters[sender] = [NoHunter EXCEPT !.isActive = TRUE]]
            /\ Succeeded("registerHunter", sender, 0)
            /\ UNCHANGED <<vault, paidOut>>
  /\ UNCHANGED <<indexerVars, msig>>

\* submitFinding without its require on bounty.isActive
submitFinding_revert_anyBounty(sender, _bountyId) ==
  IF bm.paused THEN "EnforcedPause"
  ELSE IF ~bountyExists(_bountyId) THEN "Bounty does not exist"
  ELSE IF ~(sender \in Wallets /\ bm.hunters[sender].isActive) THEN "Not registered as hunter"
  ELSE ""

\* The modifiers and requires of submitFinding, in the order they run
submitFinding_revert(sender, _bountyId) ==
  IF bm.paused THEN "EnforcedPause"
  ELSE IF ~bountyExists(_bountyId) THEN "Bounty does not exist"
  ELSE IF ~(sender \in Wallets /\ bm.hunters[sender].isActive) THEN "Not registered as hunter"
  ELSE IF ~bm.bounties[_bountyId + 1].isActive THEN "Bounty not active"
  ELSE ""

BountyManager_submitFinding(sender, _bountyId) ==
  /\ IF submitFinding_revert(sender, _bountyId) # ""
       THEN Reverted("submitFinding", sender, _bountyId, submitFinding_revert(sender, _bountyId))
       ELSE /\ bm.nextSubmissionId < NumSubmissions
            /\ bm' = [bm EXCEPT
                        !.nextSubmissionId = @ + 1,
                        !.submissions = Append(@, [id |-> bm.nextSubmissionId,
                                                   bountyId |-> _bountyId,
                                                   hunter |-> sender,
                                                   severity |-> 0,
                                                   status |-> Dinilai,
                                                   rewardAmount |-> 0,
                                                   isPaid |-> FALSE]),
                        !.bountySubmissions[_bountyId] = Append(@, bm.nextSubmissionId)]
            /\ Succeeded("submitFinding", sender, _bountyId)
            /\ UNCHANGED <<vault, paidOut>>
  /\ UNCHANGED <<indexerVars, msig>>

validateSubmission_revert(sender, _submissionId) ==
  IF sender # bm.validatorContract THEN "Only validator can call"
  ELSE IF ~submissionExists(_submissionId) THEN "Submission does not exist"
  ELSE IF bm.submissions[_submissionId + 1].status # Dinilai THEN "Already validated"
  ELSE ""

BountyManager_validateSubmission(sender, _submissionId, _severity, _isValid) ==
  /\ IF validateSubmission_revert(sender, _submissionId) # ""
       THEN Reverted("validateSubmission", sender, _submissionId,
                     validateSubmission_revert(sender, _submissionId))
       ELSE /\ bm' = [bm EXCEPT
                        !.submissions[_submissionId + 1] =
                           [@ EXCEPT !.severity = _severity,
                                     !.status = IF _isValid THEN Valid ELSE Invalid,
                                     !.rewardAmount = IF _isValid /\ _severity # 0
                                                        THEN severityRewards(_severity)
                                                        ELSE @]]
            /\ Succeeded("validateSubmission", sender, _submissionId)
            /\ UNCHANGED <<vault, paidOut>>
  /\ UNCHANGED <<indexerVars, msig>>

payReward_revert(_submissionId) ==
  IF ~submissionExists(_submissionId) THEN "Submission does not exist"
  ELSE LET submission == bm.submissions[_submissionId + 1]
           bounty == bm.bounties[submission.bountyId + 1]
       IN IF submission.status # Valid THEN "Not valid"
          ELSE IF submission.isPaid THEN "Already paid"
          ELSE IF bounty.remainingReward < submission.rewardAmount THEN "Insufficient funds"
          ELSE payoutReward_revert(submission.rewardAmount)

BountyManager_payReward(sender, _submissionId) ==
  /\ IF payReward_revert(_submissionId) # ""
       THEN Reverted("payReward", sender, _submissionId, payReward_revert(_submissionId))
       ELSE LET submission == bm.submissions[_submissionId + 1]
                platformFee == (submission.rewardAmount * platformFeePercentage) \div 100
                hunterReward == submission.rewardAmount - platformFee
            IN /\ bm' = [bm EXCEPT
                           !.submissions[_submissionId + 1].isPaid = TRUE,
                           !.bounties[submission.bountyId + 1].remainingReward =
                              @ - submission.rewardAmount,
                           !.hunters[submission.hunter] =
                              [@ EXCEPT !.totalEarned = @ + hunterReward,
                                        !.successfulSubmissions = @ + 1,
                                        !.reputation = @ + _severity2Points(submission.severity)]]
               /\ vault' = Withdrawn(hunterReward + platformFee)
               /\ paidOut' = [paidOut EXCEPT ![submission.bountyId] = @ + hunterReward + platformFee]
               /\ Succeeded("payReward", sender, _submissionId)
  /\ UNCHANGED <<indexerVars, msig>>

completeBounty_revert(sender, _bountyId) ==
  IF ~bountyExists(_bountyId) THEN "Bounty does not exist"
  ELSE LET bounty == bm.bounties[_bountyId + 1]
       IN IF sender # bounty.company /\ sender # owner THEN "Not authorized"
          ELSE IF ~bounty.isActive THEN "Not active"
          ELSE IF bounty.remainingReward > 0 THEN payoutReward_revert(bounty.remainingReward)
          ELSE ""

BountyManager_completeBounty(sender, _bountyId) ==
  /\ IF completeBounty_revert(sender, _bountyId) # ""
       THEN Reverted("completeBounty", sender, _bountyId, completeBounty_revert(sender, _bountyId))
       ELSE LET bounty == bm.bounties[_bountyId + 1]
            IN /\ bm' = [bm EXCEPT !.bounties[_bountyId + 1] =
                                      [@ EXCEPT !.isActive = FALSE, !.status = Completed]]
               /\ vault' = Withdrawn(bounty.remainingReward)
               /\ paidOut' = [paidOut EXCEPT ![_bountyId] = @ + bounty.remainingReward]
               /\ Succeeded("completeBounty", sender, _bountyId)
  /\ UNCHANGED <<indexerVars, msig>>

HasValidSubmissions(_bountyId) ==
  \E k \in 1..Len(bm.bountySubmissions[_bountyId]) :
     bm.submissions[bm.bountySubmissions[_bountyId][k] + 1].status = Valid

cancelBounty_revert(sender, _bountyId) ==
  IF ~bountyExists(_bountyId) THEN "Bounty does not exist"
  ELSE LET bounty == bm.bounties[_bountyId + 1]
       IN IF sender # bounty.company THEN "Not company"
          ELSE IF ~bounty.isActive THEN "Not active"
          ELSE IF HasValidSubmissions(_bountyId) THEN "Has valid submissions"
          ELSE payoutReward_revert(bounty.remainingReward)

BountyManager_cancelBounty(sender, _bountyId) ==
  /\ IF cancelBounty_revert(sender, _bountyId) # ""
       THEN Reverted("cancelBounty", sender, _bountyId, cancelBounty_revert(sender, _bountyId))
       ELSE LET bounty == bm.bounties[_bountyId + 1]
            IN /\ bm' = [bm EXCEPT !.bounties[_bountyId + 1] =
                                      [@ EXCEPT !.isActive = FALSE, !.status = Cancelled]]
               /\ vault' = Withdrawn(bounty.remainingReward)
               /\ paidOut' = [paidOut EXCEPT ![_bountyId] = @ + bounty.remainingReward]
               /\ Succeeded("cancelBounty", sender, _bountyId)
  /\ UNCHANGED <<indexerVars, msig>>

\* Who sends what: the owner and one other account for the owner's functions,
\* the company, the owner and a stranger where the sender decides, one account
\* where any sender does the same.
NextContracts ==
  \/ \E a \in {Deployer, "0xBB"} : VaultManager_setBountyManager(a, BountyManagerAddress)
  \/ VaultManager_deposit(Deployer, DepositAmount)
  \/ \E a \in {Deployer, "0xBB"} : BountyManager_setValidatorContract(a, VulnerabilityValidator)
  \/ \E a \in {Deployer, "0xBB"} : BountyManager_pause(a)
  \/ \E a \in {Deployer, "0xBB"} : BountyManager_unpause(a)
  \/ \E a \in Companies, t \in TotalRewards : BountyManager_createBounty(a, t)
  \/ \E a \in Hunters : BountyManager_registerHunter(a)
  \/ \E a \in Wallets, b \in 0..(NumBounties - 1) : BountyManager_submitFinding(a, b)
  \/ \E a \in {Deployer, VulnerabilityValidator}, s \in 0..(NumSubmissions - 1), v \in Verdicts :
        BountyManager_validateSubmission(a, s, v[1], v[2])
  \/ \E s \in 0..(NumSubmissions - 1) : BountyManager_payReward("0xBB", s)
  \/ \E a \in Senders, b \in 0..(NumBounties - 1) : BountyManager_completeBounty(a, b)
  \/ \E a \in Wallets, b \in 0..(NumBounties - 1) : BountyManager_cancelBounty(a, b)

InitContracts == Init /\ titleNotNull

SpecContracts == InitContracts /\ [][NextContracts]_vars

(* --------------------------- MultiSigApproval -------------------------- *)
\* No target contract is registered for the request type, so _executeRequest
\* makes no external call.
MsigReverted(fn, sender, id, reason) ==
  /\ tx' = [fn |-> fn, sender |-> sender, id |-> id, ok |-> FALSE, reason |-> reason]
  /\ UNCHANGED msig

onlyWallet_revert(sender) ==
  IF sender \notin {msig.wallet1, msig.wallet2, msig.wallet3} THEN "Not authorized wallet"
  ELSE IF ~msig.wallets[sender].isActive THEN "Wallet not active"
  ELSE ""

MultiSigApproval_requestApproval(sender) ==
  /\ msig.nextRequestId < MaxRequests
  /\ msig' = [msig EXCEPT
                !.nextRequestId = @ + 1,
                !.approvalRequests[msig.nextRequestId] =
                   [@ EXCEPT !.requester = sender, !.approvalCount = 0,
                             !.isExecuted = FALSE, !.isCancelled = FALSE]]
  /\ Succeeded("requestApproval", sender, msig.nextRequestId)
  /\ UNCHANGED <<indexerVars, bm, vault, paidOut>>

approve_revert(sender, _requestId) ==
  IF onlyWallet_revert(sender) # "" THEN onlyWallet_revert(sender)
  ELSE IF msig.approvalRequests[_requestId].isExecuted THEN "Already executed"
  ELSE IF msig.approvalRequests[_requestId].isCancelled THEN "Request cancelled"
  ELSE IF sender \in msig.approvalRequests[_requestId].approvals THEN "Already approved"
  ELSE ""

MultiSigApproval_approve(sender, _requestId) ==
  /\ IF approve_revert(sender, _requestId) # ""
       THEN MsigReverted("approve", sender, _requestId, approve_revert(sender, _requestId))
       ELSE /\ msig' = [msig EXCEPT
                          !.approvalRequests[_requestId] =
                             [@ EXCEPT !.approvals = @ \cup {sender},
                                       !.approvalCount = @ + 1,
                                       !.isExecuted = (@ \/ msig.approvalRequests[_requestId].approvalCount + 1
                                                              >= msig.requiredApprovals)],
                          !.wallets[sender].totalApprovals = @ + 1]
            /\ Succeeded("approve", sender, _requestId)
  /\ UNCHANGED <<indexerVars, bm, vault, paidOut>>

executeRequest_revert(sender, _requestId) ==
  IF onlyWallet_revert(sender) # "" THEN onlyWallet_revert(sender)
  ELSE IF msig.approvalRequests[_requestId].approvalCount < msig.requiredApprovals
    THEN "Not enough approvals"
  ELSE IF msig.approvalRequests[_requestId].isExecuted THEN "Already executed"
  ELSE ""

MultiSigApproval_executeRequest(sender, _requestId) ==
  /\ IF executeRequest_revert(sender, _requestId) # ""
       THEN MsigReverted("executeRequest", sender, _requestId,
                         executeRequest_revert(sender, _requestId))
       ELSE /\ msig' = [msig EXCEPT !.approvalRequests[_requestId].isExecuted = TRUE]
            /\ Succeeded("executeRequest", sender, _requestId)
  /\ UNCHANGED <<indexerVars, bm, vault, paidOut>>

cancelRequest_revert(sender, _requestId) ==
  IF sender # msig.approvalRequests[_requestId].requester /\ sender # owner THEN "Not authorized"
  ELSE IF msig.approvalRequests[_requestId].isExecuted THEN "Already executed"
  ELSE IF msig.approvalRequests[_requestId].isCancelled THEN "Already cancelled"
  ELSE ""

MultiSigApproval_cancelRequest(sender, _requestId) ==
  /\ IF cancelRequest_revert(sender, _requestId) # ""
       THEN MsigReverted("cancelRequest", sender, _requestId,
                         cancelRequest_revert(sender, _requestId))
       ELSE /\ msig' = [msig EXCEPT !.approvalRequests[_requestId].isCancelled = TRUE]
            /\ Succeeded("cancelRequest", sender, _requestId)
  /\ UNCHANGED <<indexerVars, bm, vault, paidOut>>

MultiSigApproval_updateWallet(sender, _oldWallet, _newWallet) ==
  /\ IF sender # owner
       THEN MsigReverted("updateWallet", sender, 0, "OwnableUnauthorizedAccount")
       ELSE /\ msig' = [msig EXCEPT
                          !.wallets = [[@ EXCEPT ![_oldWallet].isActive = FALSE]
                                         EXCEPT ![_newWallet] =
                                            [isActive |-> TRUE, totalApprovals |-> 0]],
                          !.wallet1 = IF _oldWallet = @ THEN _newWallet ELSE @,
                          !.wallet2 = IF _oldWallet # msig.wallet1 /\ _oldWallet = @
                                        THEN _newWallet ELSE @,
                          !.wallet3 = IF _oldWallet # msig.wallet1 /\ _oldWallet # msig.wallet2
                                           /\ _oldWallet = @
                                        THEN _newWallet ELSE @]
            /\ Succeeded("updateWallet", sender, 0)
  /\ UNCHANGED <<indexerVars, bm, vault, paidOut>>

MultiSigApproval_setRequiredApprovals(sender, _required) ==
  /\ IF sender # owner
       THEN MsigReverted("setRequiredApprovals", sender, _required, "OwnableUnauthorizedAccount")
       ELSE IF ~(_required >= 1 /\ _required <= 3)
         THEN MsigReverted("setRequiredApprovals", sender, _required, "Invalid range")
         ELSE /\ msig' = [msig EXCEPT !.requiredApprovals = _required]
              /\ Succeeded("setRequiredApprovals", sender, _required)
  /\ UNCHANGED <<indexerVars, bm, vault, paidOut>>

MultiSigApproval_toggleWalletStatus(sender, _wallet) ==
  /\ IF sender # owner
       THEN MsigReverted("toggleWalletStatus", sender, 0, "OwnableUnauthorizedAccount")
       ELSE /\ msig' = [msig EXCEPT !.wallets[_wallet].isActive = ~@]
            /\ Succeeded("toggleWalletStatus", sender, 0)
  /\ UNCHANGED <<indexerVars, bm, vault, paidOut>>

NextMultiSig ==
  \/ \E a \in {"0xA1"} : MultiSigApproval_requestApproval(a)
  \/ \E a \in MsigSenders, r \in 0..(MaxRequests - 1) : MultiSigApproval_approve(a, r)
  \/ \E a \in {"0xA1"}, r \in 0..(MaxRequests - 1) : MultiSigApproval_executeRequest(a, r)
  \/ \E a \in {"0xA1", "0xA2"}, r \in 0..(MaxRequests - 1) : MultiSigApproval_cancelRequest(a, r)
  \/ \E a \in {Deployer, "0xA1"}, o \in {"0xA3"}, n \in {Deployer} :
        MultiSigApproval_updateWallet(a, o, n)
  \/ \E a \in {Deployer, "0xA1"}, n \in {0, 1, 3} : MultiSigApproval_setRequiredApprovals(a, n)
  \/ \E a \in {Deployer, "0xA1"}, w \in {"0xA2"} : MultiSigApproval_toggleWalletStatus(a, w)

SpecMultiSig == Init /\ [][NextMultiSig]_vars

(* ------------------------------ properties ----------------------------- *)
last_block == indexer_state[1].last_block

LogEvents == {log[k] : k \in 1..Len(log)}

RECURSIVE SumAmounts(_)
SumAmounts(S) ==
  IF S = {} THEN 0
  ELSE LET e == CHOOSE x \in S : TRUE IN e.amount + SumAmounts(S \ {e})

RewardsPaidTo(w) ==
  {e \in LogEvents : e.type = "RewardPaid" /\ toLowerCase(e.who) = w}

SubmissionsCreatedBy(w) ==
  {e \in LogEvents : e.type = "SubmissionCreated" /\ toLowerCase(e.who) = w}

\* C1: however often RewardPaid(s, h, a) is delivered, hunter_stats(h) counts
\* it once: total_earned is at most the sum of the amounts of the distinct
\* RewardPaid events for h, and successful_submissions at most their number.
C1_RewardPaidCountedOnce ==
  \A w \in LowerWallets :
    Len(db.hunter_stats[w]) # 0 =>
      /\ db.hunter_stats[w][1].total_earned <= SumAmounts(RewardsPaidTo(w))
      /\ db.hunter_stats[w][1].successful_submissions <= Cardinality(RewardsPaidTo(w))

\* C2: however often SubmissionCreated(s, b, h) is delivered, total_submissions
\* of h grows by one: it never exceeds the number of distinct SubmissionCreated
\* events of h.
C2_SubmissionCountedOnce ==
  \A w \in LowerWallets :
    Len(db.hunter_stats[w]) # 0 =>
      db.hunter_stats[w][1].total_submissions <= Cardinality(SubmissionsCreatedBy(w))

OverwriteTypes == {"BountyCreated", "SubmissionValidated", "BountyCompleted"}

\* C3: handling a BountyCreated, SubmissionValidated or BountyCompleted event
\* twice in succession, on the same contract storage, leaves users, bounties,
\* submissions and hunter_stats as handling it once does.
C3_OverwriteIdempotent ==
  \A e \in LogEvents :
    e.type \in OverwriteTypes =>
      handle(handle(db, e, readContract(e)).db, e, readContract(e)).db
        = handle(db, e, readContract(e)).db

\* C3 witness: a BountyCreated event has been handled and its bounties row is
\* there, so that handling it again takes the ON CONFLICT DO UPDATE branch.
C3_Witness ==
  \E e \in LogEvents :
    /\ e.type = "BountyCreated"
    /\ Len(db.bounties[e.bountyId]) # 0
    /\ handle(db, e, readContract(e)).db = db

\* C4: a batch's projection writes and its last_block advancement succeed or
\* fail together: a process that stopped inside a batch leaves none of that
\* batch's writes in the tables.
C4_AtomicBatchCommit ==
  pc = "stopped" => ~hist.batchWrites

IsIncreasing(q) == \A k \in 1..(Len(q) - 1) : q[k] < q[k + 1]

\* C6: within one backfill batch the events are handled in strictly increasing
\* (blockNumber, logIndex) order, whatever their types.
C6_BatchInBlockOrder ==
  IsIncreasing(hist.batchTrace)

\* C7: once a handler has met an event whose parent row is missing, the run
\* handles no further event and writes no checkpoint.
C7_CausalityViolationHalts ==
  [][hist.orphan =>
        ~(\/ queryEvents
          \/ indexEvent
          \/ commitBatch
          \/ runListener)]_vars

\* C8: no event is missed between backfill and streaming: once the listeners
\* are registered and idle, every watched event of a block above the checkpoint
\* that backfill reached has been handed to its listener.
C8_NoEventMissed ==
  (pc = "realtime" /\ inflight = {}) =>
     \A e \in LogEvents :
        (IsWatched(e) /\ e.blockNumber > last_block) => e.blockNumber \in hist.streamed

\* C9: once the listeners have applied the events delivered so far, last_block
\* is at least the highest block among them.
C9_StreamingAdvancesCheckpoint ==
  (pc = "realtime" /\ inflight = {}) =>
     \A b \in hist.streamed : last_block >= b

\* C10: every backfill batch covers exactly
\* [last_block + 1, min(last_block + batchSize, head)], last_block being the
\* stored checkpoint when the batch starts.
C10_BatchRange ==
  pc = "batch" =>
     /\ loc.fromBlock = last_block + 1
     /\ loc.toBlock = Min(last_block + BatchSize, loc.currentBlock)

StatusRank(status) ==
  CASE status = Active -> 0
    [] status = Dinilai -> 1
    [] status \in {Valid, Invalid} -> 2
    [] status \in {Completed, Cancelled} -> 3

StatusForward(from, to) == StatusRank(from) <= StatusRank(to)

\* C11: no step moves the stored status of a bounty or of a submission
\* backward along Active -> Dinilai -> Valid | Invalid -> Completed | Cancelled,
\* whatever the order in which the real-time handlers read and write.
C11_StatusForwardOnly ==
  [][/\ \A b \in 0..(NumBounties - 1) :
          (Len(db.bounties[b]) # 0 /\ Len(db'.bounties[b]) # 0) =>
             StatusForward(db.bounties[b][1].status, db'.bounties[b][1].status)
     /\ \A s \in 0..(NumSubmissions - 1) :
          (Len(db.submissions[s]) # 0 /\ Len(db'.submissions[s]) # 0) =>
             StatusForward(db.submissions[s][1].status, db'.submissions[s][1].status)]_vars

\* C12: handling SubmissionValidated(s, severity, isValid) changes the stored
\* status of s only when that status is Pending (1): on a row whose status is
\* already Valid or Invalid the handler leaves the status as it is.
C12_ValidatedOnlyFromPending ==
  \A e \in LogEvents :
    (/\ e.type = "SubmissionValidated"
     /\ Len(db.submissions[e.submissionId]) # 0
     /\ db.submissions[e.submissionId][1].status \in {Valid, Invalid}) =>
       handleSubmissionValidated(db, e).db.submissions[e.submissionId][1].status
         = db.submissions[e.submissionId][1].status

\* C13: once a submissions row has is_paid = TRUE, no step changes its status,
\* severity, reward_amount or is_paid.
C13_PaidIsTerminal ==
  [][\A s \in 0..(NumSubmissions - 1) :
        (Len(db.submissions[s]) # 0 /\ db.submissions[s][1].is_paid) =>
           /\ Len(db'.submissions[s]) # 0
           /\ db'.submissions[s][1].status = db.submissions[s][1].status
           /\ db'.submissions[s][1].severity = db.submissions[s][1].severity
           /\ db'.submissions[s][1].reward_amount = db.submissions[s][1].reward_amount
           /\ db'.submissions[s][1].is_paid]_vars

\* The indexer has caught up past block blk: backfill has committed a
\* checkpoint at or above it, or the listeners are registered and idle.
CaughtUpPast(blk) ==
  /\ inflight = {}
  /\ \/ pc = "caughtup" /\ last_block >= blk
     \/ pc = "realtime"

\* C14: once the indexer has caught up past the block of BountyCancelled(b),
\* the bounties row of b has status Cancelled (5) and is_active = FALSE.
C14_BountyCancelledProjected ==
  \A e \in LogEvents :
    (/\ e.type = "BountyCancelled"
     /\ Len(db.bounties[e.bountyId]) # 0
     /\ CaughtUpPast(e.blockNumber)) =>
       /\ db.bounties[e.bountyId][1].status = Cancelled
       /\ ~db.bounties[e.bountyId][1].is_active

\* C15: once RewardPaid(s, h, amount) has been applied after the BountyCreated
\* and SubmissionCreated of its bounty and submission (the submissions row
\* carries is_paid and the event's amount), the stored remaining_reward of the
\* bounty is below its total_reward by the debit of s.
C15_RewardDebitReachesBounty ==
  \A e \in LogEvents :
    (/\ e.type = "RewardPaid"
     /\ Len(db.bounties[e.bountyId]) # 0
     /\ Len(db.submissions[e.submissionId]) # 0
     /\ db.submissions[e.submissionId][1].is_paid
     /\ db.submissions[e.submissionId][1].reward_amount = e.amount) =>
       db.bounties[e.bountyId][1].remaining_reward
         <= db.bounties[e.bountyId][1].total_reward
              - submissions(e.submissionId).rewardAmount

\* C16: two indexer processes started against the same indexer_state row are
\* never both inside a backfill batch.
C16_SingleWriter ==
  ~(pc = "batch" /\ other.pc = "batch")

\* C17: a transient failure of a fetch or of a database call during backfill
\* never ends the engine.
C17_TransientFailureRetried ==
  ~(pc = "stopped" /\ hist.exit = "transient")

\* C18: a process that exited on SIGINT / SIGTERM leaves no batch half applied:
\* none of the writes of a batch whose checkpoint was not written is in the
\* tables.
C18_GracefulShutdown ==
  (pc = "stopped" /\ hist.exit = "signal") => ~hist.batchWrites

\* Every row of the projection, and every hunter_stats count, stems from an
\* event of the canonical log.
FromCanonicalLog ==
  /\ \A b \in 0..(NumBounties - 1) :
        Len(db.bounties[b]) # 0 =>
          \E e \in LogEvents : e.type = "BountyCreated" /\ e.bountyId = b
  /\ \A s \in 0..(NumSubmissions - 1) :
        Len(db.submissions[s]) # 0 =>
          \E e \in LogEvents : e.type = "SubmissionCreated" /\ e.submissionId = s
  /\ \A w \in LowerWallets :
        (Len(db.hunter_stats[w]) # 0 /\ db.hunter_stats[w][1].total_submissions > 0) =>
          SubmissionsCreatedBy(w) # {}

\* C19: after the head block was reorganised, a run that has since started and
\* caught up with the head holds the projection of the canonical events only:
\* no row and no hunter_stats increment is left over from the orphaned block.
C19_ReorgRecovery ==
  (pc = "caughtup" /\ hist.postReorgRun /\ last_block >= head) => FromCanonicalLog

\* C20: while indexHistoricalEvents is processing, no real-time handler of the
\* same process runs or is waiting to run.
C20_BackfillExcludesStreaming ==
  pc \in {"initialized", "batch"} => inflight = {}

\* C20 witness: a run whose backfill committed batches is now streaming, with a
\* listener invocation pending after others were handled.
C20_Witness ==
  /\ pc = "realtime"
  /\ last_block > 0
  /\ hist.streamed # {}
  /\ inflight # {}

\* C21: validateSubmission sent by the deployer account, with validatorContract
\* set to the VulnerabilityValidator contract, on a submission whose status is
\* Dinilai, succeeds: such a call never ends reverted with the submission
\* still pending.
C21_DeployerValidates ==
  (/\ tx.fn = "validateSubmission"
   /\ tx.sender = Deployer
   /\ bm.validatorContract = VulnerabilityValidator
   /\ submissionExists(tx.id)
   /\ bm.submissions[tx.id + 1].status = Dinilai)
  => tx.ok

C23_AllThreeApprove ==
  [][\A r \in 0..(MaxRequests - 1) :
       (/\ r < msig.nextRequestId
        /\ ~msig.approvalRequests[r].isExecuted
        /\ msig'.approvalRequests[r].isExecuted) =>
          {msig'.wallet1, msig'.wallet2, msig'.wallet3} \subseteq msig'.approvalRequests[r].approvals]_vars

\* C30: what the vault has paid on behalf of a bounty (hunter rewards, platform
\* fees and funds returned to the company) never exceeds its totalReward.
C30_FundConservation ==
  \A b \in 0..(NumBounties - 1) :
     bountyExists(b) => paidOut[b] <= bm.bounties[b + 1].totalReward

\* C24: once SubmissionCreated has been handled, so that the submission's row
\* is there, its hunter has a hunter_stats row, whatever the tables held before.
C24_HunterStatsExists ==
  \A s \in 0..(NumSubmissions - 1) :
     Len(db.submissions[s]) # 0 => Len(db.hunter_stats[db.submissions[s][1].hunter]) # 0

\* C25: on tables that accept the indexer's rows, no handler's get-or-insert of
\* its user fails because the row appeared between its SELECT and its INSERT.
C25_UserGetOrInsertSafe ==
  ~titleNotNull => ~hist.userClash

\* C26: on tables created by the shipped schema, a BountyCreated event that a
\* listener has handled has its one row in bounties.
C26_BountyMaterialized ==
  titleNotNull =>
    \A e \in LogEvents :
       (e.type = "BountyCreated" /\ e.blockNumber \in hist.streamed) =>
          Len(db.bounties[e.bountyId]) = 1

\* C27: in a backfill the checkpoint row changes only in the step that ends a
\* pass, when all five index calls of [fromBlock, toBlock] have returned, and
\* becomes toBlock; the loop moves to the next range only with that write; and
\* when a fetch or a handler throws, the row stays as it is and the process
\* exits.
C27_CheckpointAfterBatch ==
  [][/\ (Len(indexer_state) = 1 /\ indexer_state' # indexer_state) =>
          /\ pc = "batch"
          /\ queue = <<>>
          /\ nextType(loc.type, loc.fromBlock, loc.toBlock) = 0
          /\ indexer_state'[1].last_block = loc.toBlock
     /\ (pc = "batch" /\ pc' = "batch" /\ loc'.fromBlock # loc.fromBlock) =>
          indexer_state'[1].last_block = loc.toBlock
     /\ (pc \in {"initialized", "batch"} /\ hist'.exit \in {"throw", "transient"}) =>
          /\ indexer_state' = indexer_state
          /\ pc' = "stopped"]_vars

\* A handler of a later batch has thrown after an earlier batch was committed:
\* the process is down and the checkpoint is the earlier batch's toBlock.
C27_Witness ==
  /\ pc = "stopped"
  /\ hist.exit = "throw"
  /\ hist.batchWrites
  /\ Len(indexer_state) = 1
  /\ last_block > StartBlock
  /\ last_block < head

\* C29: whatever INDEXER_START_BLOCK a process is started with, on an existing
\* row initializeState leaves last_block as it is and getLastIndexedBlock
\* returns the stored last_block.
C29_RestartPreservesProgress ==
  \A startBlock \in StartBlocks :
     Len(indexer_state) = 1 =>
        /\ initializeStateFrom(startBlock) = indexer_state
        /\ getLastIndexedBlockFrom(startBlock) = indexer_state[1].last_block

====
